---------------------------- MODULE Spec2Model ----------------------------
(***************************************************************************)
(* Model of lib/core/src/client/preview/loadCsf.ts: the entrypoint loadCsf *)
(* (load), the reconciliation pass loadStories, the module-level state     *)
(* previousExports / loaded, and the hot-module channel (m.hot).           *)
(*                                                                         *)
(* JavaScript strings are sequences of one-character strings, so that the  *)
(* conversions storyNameFromExport and toId are computed, not assumed.     *)
(* The value `undefined` of an optional string is the sequence Undefined.  *)
(* An absent object (parameters, args, argTypes) is the empty map and an   *)
(* absent array (decorators) the empty sequence: the code spreads them     *)
(* ({...x}, x || []), which makes absent and empty the same.               *)
(***************************************************************************)
EXTENDS Naturals, Sequences, FiniteSets, TLC

(***************************************************************************)
(* Strings                                                                 *)
(***************************************************************************)
Undefined == <<"#undefined">>

\* JavaScript truthiness of an optional string: undefined and '' are falsy.
Truthy(s) == s # Undefined /\ s # <<>>

\* a || b on optional strings
OrElse(a, b) == IF Truthy(a) THEN a ELSE b

LowerChars == <<"a", "b", "c", "e", "i", "m", "n", "p", "t", "x", "z">>
UpperChars == <<"A", "B", "C", "E", "I", "M", "N", "P", "T", "X", "Z">>
DigitChars == {"0", "1", "2", "9"}

Range(s) == {s[i] : i \in DOMAIN s}

IsLower(c) == c \in Range(LowerChars)
IsUpper(c) == c \in Range(UpperChars)
IsDigit(c) == c \in DigitChars
IsAlnum(c) == IsLower(c) \/ IsUpper(c) \/ IsDigit(c)

IndexIn(c, s) == CHOOSE i \in DOMAIN s : s[i] = c

ToLowerChar(c) == IF IsUpper(c) THEN LowerChars[IndexIn(c, UpperChars)] ELSE c
ToUpperChar(c) == IF IsLower(c) THEN UpperChars[IndexIn(c, LowerChars)] ELSE c

ToLowerCase(s) == [i \in DOMAIN s |-> ToLowerChar(s[i])]

(***************************************************************************)
(* @storybook/csf: sanitize, toId, storyNameFromExport (lodash startCase)  *)
(***************************************************************************)

\* .replace(/[ special characters ]/gi, '-'): in the model's alphabet every
\* character that is not a letter or a digit is one of the replaced ones.
ReplaceSpecial(s) == [i \in DOMAIN s |-> IF IsAlnum(s[i]) THEN s[i] ELSE "-"]

\* .replace(/-+/g, '-')
RECURSIVE CollapseDashes(_)
CollapseDashes(s) ==
    IF Len(s) <= 1 THEN s
    ELSE IF s[1] = "-" /\ s[2] = "-" THEN CollapseDashes(Tail(s))
    ELSE <<s[1]>> \o CollapseDashes(Tail(s))

\* .replace(/^-+/, '')
RECURSIVE TrimLeft(_)
TrimLeft(s) == IF s # <<>> /\ s[1] = "-" THEN TrimLeft(Tail(s)) ELSE s

\* .replace(/-+$/, '')
RECURSIVE TrimRight(_)
TrimRight(s) ==
    IF s # <<>> /\ s[Len(s)] = "-" THEN TrimRight(SubSeq(s, 1, Len(s) - 1)) ELSE s

Sanitize(s) == TrimRight(TrimLeft(CollapseDashes(ReplaceSpecial(ToLowerCase(s)))))

\* sanitizeSafe throws when nothing alphanumeric is left.
InvalidId == <<"#invalid">>

ToId(kind, name) ==
    IF Sanitize(kind) = <<>> \/ Sanitize(name) = <<>> THEN InvalidId
    ELSE Sanitize(kind) \o <<"-", "-">> \o Sanitize(name)

\* lodash words(): runs of letters and digits, split where the case or the
\* character class changes (fooBar -> foo, Bar; ABc -> A, Bc; a1 -> a, 1).
\* done: the words completed so far; w: the word being read.
RECURSIVE WordsFrom(_, _, _)
WordsFrom(s, done, w) ==
    LET flush == IF w = <<>> THEN done ELSE Append(done, w)
    IN  IF s = <<>> THEN flush
        ELSE LET c == s[1]
                 p == w[Len(w)]
             IN  IF ~IsAlnum(c) THEN WordsFrom(Tail(s), flush, <<>>)
                 ELSE IF w = <<>> THEN WordsFrom(Tail(s), done, <<c>>)
                 ELSE IF IsLower(c) /\ IsLower(p) THEN WordsFrom(Tail(s), done, Append(w, c))
                 ELSE IF IsLower(c) /\ IsUpper(p) /\ Len(w) = 1
                      THEN WordsFrom(Tail(s), done, Append(w, c))
                 ELSE IF IsLower(c) /\ IsUpper(p)
                      THEN WordsFrom(Tail(s), Append(done, SubSeq(w, 1, Len(w) - 1)), <<p, c>>)
                 ELSE IF IsUpper(c) /\ IsUpper(p) THEN WordsFrom(Tail(s), done, Append(w, c))
                 ELSE IF IsDigit(c) /\ IsDigit(p) THEN WordsFrom(Tail(s), done, Append(w, c))
                 ELSE WordsFrom(Tail(s), flush, <<c>>)

Words(s) == WordsFrom(s, <<>>, <<>>)

UpperFirst(w) == <<ToUpperChar(w[1])>> \o Tail(w)

RECURSIVE JoinWords(_)
JoinWords(ws) ==
    IF ws = <<>> THEN <<>>
    ELSE IF Len(ws) = 1 THEN UpperFirst(ws[1])
    ELSE UpperFirst(ws[1]) \o <<" ">> \o JoinWords(Tail(ws))

\* storyNameFromExport = (key) => startCase(key)
StoryNameFromExport(key) == JoinWords(Words(key))

(***************************************************************************)
(* Objects: maps, story functions, module export objects                   *)
(***************************************************************************)
EmptyMap == [k \in {} |-> <<>>]

\* { ...a, ...b }: the keys of both, b's value where both have the key.
Spread(a, b) == [k \in DOMAIN a \cup DOMAIN b |-> IF k \in DOMAIN b THEN b[k] ELSE a[k]]

\* An absent list-valued field (__namedExportsOrder, includeStories, ...).
NoList == << Undefined >>

\* exp.story of a story function that has no legacy annotation
NoStory ==
    [present |-> FALSE, name |-> Undefined, parameters |-> EmptyMap,
     decorators |-> <<>>, args |-> EmptyMap, argTypes |-> EmptyMap]

\* a story function with no annotation at all
PlainFn ==
    [storyName |-> Undefined, story |-> NoStory, parameters |-> EmptyMap,
     decorators |-> <<>>, args |-> EmptyMap, argTypes |-> EmptyMap]

\* exp.default of a module that has none
NoMeta ==
    [title |-> Undefined, id |-> Undefined, parameters |-> EmptyMap,
     decorators |-> <<>>, component |-> Undefined, subcomponents |-> Undefined,
     args |-> EmptyMap, argTypes |-> EmptyMap,
     includeStories |-> NoList, excludeStories |-> NoList]

S_Btn == <<"B", "t", "n">>
S_Inp == <<"I", "n", "p">>
S_Emp == <<"E", "m", "p">>
S_Exc == <<"E", "x", "c">>

K_aB == <<"a", "B">>
K_b  == <<"b">>
K_c  == <<"c">>
K_e  == <<"e">>
K_zz == <<"z", "z">>

V1 == <<"1">>
V2 == <<"2">>
V3 == <<"3">>

\* The module export objects the loadables can yield.  A unit's identity is
\* its name (reference identity of the export object); "btn", "btn2" and
\* "btn3" are three modules declaring the same title.
Units == {"old", "bad", "btn", "btn2", "btn3", "inp", "emp", "exc"}

\* The named exports of a unit, as Object.keys enumerates them.
NamedKeys(u) ==
    CASE u = "old"  -> <<>>
      [] u = "bad"  -> << K_b >>
      [] u = "btn"  -> << K_aB, K_b, K_c, K_e >>
      [] u = "btn2" -> << K_aB, K_c >>
      [] u = "btn3" -> << K_e >>
      [] u = "inp"  -> << K_aB >>
      [] u = "emp"  -> <<>>
      [] u = "exc"  -> << K_b >>

\* The story function a unit exports under a key.
StoryFn(u, key) ==
    CASE u = "btn" /\ key = K_aB ->
            [storyName |-> Undefined,
             story |-> [present |-> TRUE, name |-> <<"L", "e", "g">>,
                        parameters |-> ("foo" :> V2) @@ ("bar" :> V2),
                        decorators |-> <<"d3">>,
                        args |-> ("x" :> V2) @@ ("y" :> V2),
                        argTypes |-> ("x" :> V2)],
             parameters |-> ("foo" :> V1) @@ ("baz" :> V1),
             decorators |-> <<"d1", "d2">>,
             args |-> ("x" :> V1),
             argTypes |-> EmptyMap]
      [] u = "btn" /\ key = K_c ->
            [storyName |-> <<"C", "u", "r">>,
             story |-> [present |-> TRUE, name |-> <<"O", "l", "d">>,
                        parameters |-> EmptyMap, decorators |-> <<>>,
                        args |-> EmptyMap, argTypes |-> ("x" :> V2)],
             parameters |-> ("__id" :> <<"m", "i", "n", "e">>),
             decorators |-> <<>>,
             args |-> EmptyMap,
             argTypes |-> ("x" :> V1) @@ ("z" :> V1)]
      [] u = "btn2" /\ key = K_aB ->
            [storyName |-> <<"T", "w", "o">>, story |-> NoStory,
             parameters |-> ("foo" :> V3), decorators |-> <<"d4">>,
             args |-> EmptyMap, argTypes |-> EmptyMap]
      [] u = "inp" /\ key = K_aB ->
            [storyName |-> Undefined,
             story |-> [present |-> TRUE, name |-> Undefined,
                        parameters |-> ("bar" :> V2), decorators |-> <<"d3">>,
                        args |-> EmptyMap, argTypes |-> EmptyMap],
             parameters |-> EmptyMap, decorators |-> <<>>,
             args |-> ("y" :> V3), argTypes |-> EmptyMap]
      [] u = "btn3" /\ key = K_e ->
            [storyName |-> <<>>,
             story |-> [present |-> TRUE, name |-> <<"L", "e", "g">>,
                        parameters |-> EmptyMap, decorators |-> <<>>,
                        args |-> EmptyMap, argTypes |-> EmptyMap],
             parameters |-> EmptyMap, decorators |-> <<>>,
             args |-> EmptyMap, argTypes |-> EmptyMap]
      [] OTHER -> PlainFn

\* The export object of a unit: default (meta), __namedExportsOrder, and the
\* named exports in NamedKeys/StoryFn.
ExportsOf(u) ==
    CASE u = "old"  -> [hasDefault |-> FALSE, meta |-> NoMeta, namedExportsOrder |-> NoList]
      [] u = "bad"  -> [hasDefault |-> TRUE,
                        meta |-> [NoMeta EXCEPT !.id = S_Btn],
                        namedExportsOrder |-> NoList]
      [] u = "btn"  -> [hasDefault |-> TRUE,
                        meta |-> [NoMeta EXCEPT !.title = S_Btn,
                                                !.parameters = ("layout" :> V1),
                                                !.decorators = <<"k1", "k2">>,
                                                !.component = <<"B">>,
                                                !.args = ("x" :> V3),
                                                !.excludeStories = << K_b >>],
                        namedExportsOrder |-> << K_c, K_aB, K_zz, K_c, K_b >>]
      [] u = "btn2" -> [hasDefault |-> TRUE,
                        meta |-> [NoMeta EXCEPT !.title = S_Btn],
                        namedExportsOrder |-> NoList]
      [] u = "btn3" -> [hasDefault |-> TRUE,
                        meta |-> [NoMeta EXCEPT !.title = S_Btn],
                        namedExportsOrder |-> NoList]
      [] u = "inp"  -> [hasDefault |-> TRUE,
                        meta |-> [NoMeta EXCEPT !.title = S_Inp, !.id = S_Btn,
                                                !.includeStories = << K_aB, K_zz >>],
                        namedExportsOrder |-> NoList]
      [] u = "emp"  -> [hasDefault |-> TRUE,
                        meta |-> [NoMeta EXCEPT !.title = S_Emp],
                        namedExportsOrder |-> NoList]
      [] u = "exc"  -> [hasDefault |-> TRUE,
                        meta |-> [NoMeta EXCEPT !.title = S_Exc,
                                                !.excludeStories = << K_b >>],
                        namedExportsOrder |-> << K_b >>]

\* @storybook/csf isExportStory(key, { includeStories, excludeStories }),
\* for includeStories / excludeStories given as arrays of keys.
IsExportStory(key, meta) ==
    /\ key # <<"_", "_", "e", "s", "M", "o", "d", "u", "l", "e">>
    /\ (meta.includeStories = NoList \/ key \in Range(meta.includeStories))
    /\ (meta.excludeStories = NoList \/ key \notin Range(meta.excludeStories))

(***************************************************************************)
(* Map<any, string>: a sequence of [key, value] in insertion order         *)
(***************************************************************************)
EmptyExports == <<>>

MapKeys(m) == [i \in DOMAIN m |-> m[i].key]
MapHas(m, k) == \E i \in DOMAIN m : m[i].key = k
MapGet(m, k) == m[CHOOSE i \in DOMAIN m : m[i].key = k].value

\* Map.prototype.set: a key already present keeps its position.
MapSet(m, k, v) ==
    IF MapHas(m, k)
    THEN [i \in DOMAIN m |-> IF m[i].key = k THEN [key |-> k, value |-> v] ELSE m[i]]
    ELSE Append(m, [key |-> k, value |-> v])

KeySet(m) == {m[i].key : i \in DOMAIN m}

(***************************************************************************)
(* Loadables: a require.context, an array of them, or a loader function    *)
(***************************************************************************)
\* The file names a context can enumerate: one per unit, and one whose
\* require throws.
BrokenFile == "broken"

RequireThrows(filename) == filename = BrokenFile

\* req(filename): the export object of the file
Require(filename) == filename

ResolvedPath(filename) == <<"resolved", filename>>
PlainPath(filename) == <<"filename", filename>>
NullPath == <<"null">>

NoReturn == [kind |-> "void", items |-> <<>>]

Context(keys) ==
    [shape |-> "context", reqs |-> << [keys |-> keys, resolve |-> TRUE] >>, returns |-> NoReturn]

\* require.context objects of a loader without `resolve`
ContextArray(keyLists) ==
    [shape |-> "array",
     reqs |-> [i \in DOMAIN keyLists |-> [keys |-> keyLists[i], resolve |-> FALSE]],
     returns |-> NoReturn]

LoaderFunction(kind, items) ==
    [shape |-> "function", reqs |-> <<>>, returns |-> [kind |-> kind, items |-> items]]

\* The units that contexts of two files are made of: a default without
\* title and two modules of the same title (a unit without default comes
\* with other files in the arrays of contexts below).
PairUnits == {"bad", "btn", "btn2"}

\* What a context enumerates: no file, one file, or two different files.
KeyLists ==
    {<<>>} \cup {<<u>> : u \in Units}
           \cup {p \in PairUnits \X PairUnits : p[1] # p[2]}

Loadables ==
    {Context(keys) : keys \in KeyLists}
    \cup {ContextArray(<<>>),
          ContextArray(<< <<BrokenFile>> >>),
          ContextArray(<< <<BrokenFile, "btn">>, <<"old", "btn">> >>),
          ContextArray(<< <<"btn2">>, <<BrokenFile, "inp">> >>)}
    \cup {LoaderFunction("void", <<>>),
          LoaderFunction("object", <<>>),
          LoaderFunction("array", <<>>),
          LoaderFunction("array", <<"btn", "inp">>),
          LoaderFunction("array", <<"btn", "btn2", "btn3">>),
          LoaderFunction("array", <<"btn2", "old">>),
          LoaderFunction("array", <<"emp", "exc">>)}

Frameworks == {"react"}

\* The third argument of load: nothing, a string, or a module with m.hot.
Modules == {"undefined", "string", "hot"}

(***************************************************************************)
(* Logging and util-deprecate                                              *)
(***************************************************************************)
LogLine(level, msg, arg) == [level |-> level, msg |-> msg, arg |-> arg]

NoError == [kind |-> "none", unit |-> ""]

\* deprecate(fn, msg)(): prints msg the first time only, then runs fn.
Deprecated(acc, id) ==
    IF id \in acc.warned THEN acc
    ELSE [acc EXCEPT !.warned = @ \cup {id},
                     !.log = Append(@, LogLine("deprecation", id, <<>>))]

\* a duplicateKindWarning that would log only while its deprecation notice
\* has not been printed
DuplicateKindWarning_OncePerProcess(acc, kindName) ==
    IF "duplicateKind" \in acc.warned THEN acc
    ELSE [Deprecated(acc, "duplicateKind") EXCEPT
             !.log = Append(@, LogLine("warn", "Duplicate title", kindName)),
             !.dupWarnings = @ + 1]

\* duplicateKindWarning(kindName)
DuplicateKindWarning(acc, kindName) ==
    LET a == Deprecated(acc, "duplicateKind")
    IN  [a EXCEPT !.log = Append(@, LogLine("warn", "Duplicate title", kindName)),
                  !.dupWarnings = @ + 1]

(***************************************************************************)
(* The catalog store behind clientApi / storyStore                         *)
(***************************************************************************)
EmptyCatalog == [t \in {} |-> <<>>]

EmptyGroup == [parameters |-> EmptyMap, decorators |-> <<>>, entries |-> <<>>]

Call(op, u, title, key, name, bag) ==
    [op |-> op, unit |-> u, title |-> title, key |-> key, name |-> name, bag |-> bag]

\* storyStore.removeStoryKind(title)
RemoveStoryKind(acc, u, title) ==
    [acc EXCEPT !.calls = Append(@, Call("removeStoryKind", u, title, Undefined, Undefined, EmptyMap)),
                !.catalog = [t \in DOMAIN @ \ {title} |-> @[t]]]

\* clientApi.storiesOf(kindName, true): creates the group or gets it
StoriesOf(acc, u, title) ==
    [acc EXCEPT !.calls = Append(@, Call("storiesOf", u, title, Undefined, Undefined, EmptyMap)),
                !.catalog = IF title \in DOMAIN @ THEN @ ELSE (title :> EmptyGroup) @@ @,
                !.everAdded = @ \cup {u}]

\* kind.addParameters(bag)
AddParameters(acc, u, title, bag) ==
    [acc EXCEPT !.calls = Append(@, Call("addParameters", u, title, Undefined, Undefined, bag)),
                !.catalog[title].parameters = bag]

\* kind.addDecorator(decorator)
AddDecorator(acc, u, title, decorator) ==
    [acc EXCEPT !.calls = Append(@, Call("addDecorator", u, title, Undefined, Undefined,
                                         ("decorator" :> decorator))),
                !.catalog[title].decorators = Append(@, decorator)]

\* kind.add(name, storyFn, storyParams)
KindAdd(acc, u, title, key, name, storyParams) ==
    [acc EXCEPT !.calls = Append(@, Call("add", u, title, key, name, storyParams)),
                !.catalog[title].entries =
                    Append(@, [name |-> name, id |-> storyParams["__id"], unit |-> u, key |-> key])]

(***************************************************************************)
(* State                                                                   *)
(***************************************************************************)
VARIABLES
    previousExports,  \* let previousExports: the snapshot of the last completed pass
    loaded,           \* let loaded
    hotData,          \* m.hot.data of the module instance that calls load
    disposeHooks,     \* number of callbacks registered with m.hot.dispose
    catalog,          \* the groups and entries of the catalog store
    warned,           \* the deprecate() wrappers that have printed their message
    dupWarnings,      \* 'Duplicate title' lines logged since the process started
    repeatWarnings,   \* 'Unexpected loaded state' lines logged since the process started
    everAdded,        \* the units a group was requested for since the process started
    calls,            \* the catalog-store calls of the last pass, in order
    log,              \* the logger output of the last load invocation, in order
    error,            \* what the last load invocation threw
    passPrev,         \* previousExports as the last pass found it
    passCur,          \* currentExports as the last pass computed it
    passLoadable,     \* the argument loadable of the last pass
    lastModule,       \* the argument m of the last load invocation
    nLoads,           \* load invocations so far
    nValidLoads,      \* load invocations that passed the check of m
    nPasses,          \* passes started so far
    nDisposes         \* hot-reload teardowns so far

vars ==
    <<previousExports, loaded, hotData, disposeHooks, catalog, warned, dupWarnings,
      repeatWarnings, everAdded, calls, log, error, passPrev, passCur, passLoadable,
      lastModule, nLoads, nValidLoads, nPasses, nDisposes>>

MaxLoads == 2
MaxDisposes == 1

NoData == [present |-> FALSE, previousExports |-> EmptyExports]

\* No pass has run yet.
NoLoadable == [shape |-> "none", reqs |-> <<>>, returns |-> NoReturn]

(***************************************************************************)
(* loadStories: one reconciliation pass                                    *)
(***************************************************************************)

\* an enumeration that a failing require would end
RECURSIVE LoadKeys_StopAtFailure(_, _, _)
LoadKeys_StopAtFailure(req, i, st) ==
    IF i > Len(req.keys) THEN st
    ELSE LET filename == req.keys[i]
         IN  IF RequireThrows(filename)
             THEN [st EXCEPT !.log = Append(@, LogLine("warn", "Unexpected error while loading",
                                                     <<filename>>))]
             ELSE LoadKeys_StopAtFailure(req, i + 1,
                      [st EXCEPT !.exports =
                          MapSet(@, Require(filename),
                                 IF req.resolve THEN ResolvedPath(filename)
                                 ELSE PlainPath(filename))])

\* req.keys().forEach: each file is required inside its own try / catch
RECURSIVE LoadKeys(_, _, _)
LoadKeys(req, i, st) ==
    IF i > Len(req.keys) THEN st
    ELSE LET filename == req.keys[i]
         IN  IF RequireThrows(filename)
             THEN LoadKeys(req, i + 1,
                      [st EXCEPT !.log = Append(@, LogLine("warn", "Unexpected error while loading",
                                                        <<filename>>))])
             ELSE LoadKeys(req, i + 1,
                      [st EXCEPT !.exports =
                          MapSet(@, Require(filename),
                                 IF req.resolve THEN ResolvedPath(filename)
                                 ELSE PlainPath(filename))])

\* reqs.forEach
RECURSIVE LoadReqs(_, _, _)
LoadReqs(reqs, i, st) ==
    IF i > Len(reqs) THEN st ELSE LoadReqs(reqs, i + 1, LoadKeys(reqs[i], 1, st))

\* new Map(exported.map((fileExports) => [fileExports, null]))
RECURSIVE MapOfNull(_)
MapOfNull(items) ==
    IF items = <<>> THEN EmptyExports
    ELSE MapSet(MapOfNull(SubSeq(items, 1, Len(items) - 1)), items[Len(items)], NullPath)


\* a loader that would keep the elements with a default of an array in
\* which some element lacks one
LoadExports_KeepWellFormed(loadable) ==
    IF loadable.shape \in {"array", "context"}
    THEN LoadReqs(loadable.reqs, 1, [exports |-> EmptyExports, log |-> <<>>])
    ELSE LET exported == loadable.returns
         IN  IF exported.kind = "array"
             THEN [exports |-> MapOfNull(SelectSeq(exported.items,
                                                   LAMBDA u : ExportsOf(u).hasDefault)),
                   log |-> <<>>]
             ELSE IF exported.kind # "void"
             THEN [exports |-> EmptyExports,
                   log |-> << LogLine("warn", "Loader function passed to 'configure'", <<>>) >>]
             ELSE [exports |-> EmptyExports, log |-> <<>>]

\* currentExports and what loading it logged
LoadExports(loadable) ==
    IF loadable.shape \in {"array", "context"}
    THEN LoadReqs(loadable.reqs, 1, [exports |-> EmptyExports, log |-> <<>>])
    ELSE LET exported == loadable.returns
         IN  IF /\ exported.kind = "array"
                /\ \A i \in DOMAIN exported.items : ExportsOf(exported.items[i]).hasDefault
             THEN [exports |-> MapOfNull(exported.items), log |-> <<>>]
             ELSE IF exported.kind # "void"
             THEN [exports |-> EmptyExports,
                   log |-> << LogLine("warn", "Loader function passed to 'configure'", <<>>) >>]
             ELSE [exports |-> EmptyExports, log |-> <<>>]

\* Removed without the test against currentExports
Removed_Unfiltered(prev, cur) == MapKeys(prev)

\* Array.from(previousExports.keys()).filter((exp) => !currentExports.has(exp))
Removed(prev, cur) == SelectSeq(MapKeys(prev), LAMBDA exp : ~MapHas(cur, exp))

\* Array.from(currentExports.keys()).filter((exp) => !previousExports.has(exp))
Added(prev, cur) == SelectSeq(MapKeys(cur), LAMBDA exp : ~MapHas(prev, exp))

\* removed.forEach without the test of exp.default
RECURSIVE RemoveAll_NoDefaultTest(_, _, _)
RemoveAll_NoDefaultTest(removed, i, acc) ==
    IF i > Len(removed) THEN acc
    ELSE RemoveAll_NoDefaultTest(removed, i + 1,
             RemoveStoryKind(acc, removed[i], ExportsOf(removed[i]).meta.title))

\* removed.forEach
RECURSIVE RemoveAll(_, _, _)
RemoveAll(removed, i, acc) ==
    IF i > Len(removed) THEN acc
    ELSE LET exp == removed[i]
         IN  IF ExportsOf(exp).hasDefault
             THEN RemoveAll(removed, i + 1, RemoveStoryKind(acc, exp, ExportsOf(exp).meta.title))
             ELSE RemoveAll(removed, i + 1, acc)

\* __namedExportsOrder.forEach: exports[name] = namedExports[name], an object
\* keeps a key at the place of its first assignment
RECURSIVE OrderedKeys(_, _, _)
OrderedKeys(order, named, out) ==
    IF order = <<>> THEN out
    ELSE IF order[1] \in Range(named) /\ order[1] \notin Range(out)
    THEN OrderedKeys(Tail(order), named, Append(out, order[1]))
    ELSE OrderedKeys(Tail(order), named, out)

\* Object.keys(exports) that would ignore __namedExportsOrder
StoryExports_Unordered(u) == NamedKeys(u)

\* Object.keys(exports)
StoryExports(u) ==
    IF ExportsOf(u).namedExportsOrder = NoList THEN NamedKeys(u)
    ELSE OrderedKeys(ExportsOf(u).namedExportsOrder, NamedKeys(u), <<>>)

\* the bag given to kind.addParameters
KindParameters(framework, meta, fileName) ==
    Spread(Spread(("framework" :> <<framework>>) @@ ("component" :> meta.component)
                     @@ ("subcomponents" :> meta.subcomponents) @@ ("fileName" :> fileName),
                  meta.parameters),
           ("args" :> meta.args) @@ ("argTypes" :> meta.argTypes))

\* (kindDecorators || []).forEach
RECURSIVE AddDecorators(_, _, _, _)
AddDecorators(acc, u, title, decorators) ==
    IF decorators = <<>> THEN acc
    ELSE AddDecorators(AddDecorator(acc, u, title, decorators[1]), u, title, Tail(decorators))

\* const { storyName = story?.name } = storyFn
StoryName(storyFn) ==
    IF storyFn.storyName = Undefined THEN storyFn.story.name ELSE storyFn.storyName

\* a merge in which the legacy annotation would win
MergedParameters_LegacyWins(storyFn) == Spread(storyFn.parameters, storyFn.story.parameters)

\* { ...story?.parameters, ...storyFn.parameters }
MergedParameters(storyFn) == Spread(storyFn.story.parameters, storyFn.parameters)


\* a concatenation with the legacy decorators first
MergedDecorators_LegacyFirst(storyFn) == storyFn.story.decorators \o storyFn.decorators

\* [...(storyFn.decorators || []), ...(story?.decorators || [])]
MergedDecorators(storyFn) == storyFn.decorators \o storyFn.story.decorators

\* { ...story?.args, ...storyFn.args }
MergedArgs(storyFn) == Spread(storyFn.story.args, storyFn.args)

\* { ...story?.argTypes, ...storyFn.argTypes }
MergedArgTypes(storyFn) == Spread(storyFn.story.argTypes, storyFn.argTypes)


\* The named exports that the units have.
ExportKeys == UNION {Range(NamedKeys(u)) : u \in Units}

\* storyNameFromExport(key) of every export key, computed once
ExportNames == [key \in ExportKeys |-> StoryNameFromExport(key)]

\* toId(componentId || kindName, exportName) of every unit's group and every
\* export key, computed once
StoryIds ==
    [kind \in {OrElse(ExportsOf(u).meta.id, ExportsOf(u).meta.title) : u \in Units},
     key \in ExportKeys |-> ToId(kind, ExportNames[key])]

\* toId(componentId || kindName, exportName)
StoryId(meta, key) == StoryIds[OrElse(meta.id, meta.title), key]

\* a bag in which the parameters would be spread last
StoryParams_ParametersLast(meta, key, storyFn) ==
    Spread(("__id" :> StoryId(meta, key)) @@ ("decorators" :> MergedDecorators(storyFn))
              @@ ("args" :> MergedArgs(storyFn)) @@ ("argTypes" :> MergedArgTypes(storyFn)),
           MergedParameters(storyFn))

\* { ...parameters, __id, decorators, args, argTypes }
StoryParams(meta, key, storyFn) ==
    Spread(MergedParameters(storyFn),
           ("__id" :> StoryId(meta, key)) @@ ("decorators" :> MergedDecorators(storyFn))
              @@ ("args" :> MergedArgs(storyFn)) @@ ("argTypes" :> MergedArgTypes(storyFn)))

\* storyExports.forEach; a throw of toId ends the pass
RECURSIVE AddStories(_, _, _, _)
AddStories(u, storyExports, i, acc) ==
    IF i > Len(storyExports) \/ acc.error # NoError THEN acc
    ELSE LET key == storyExports[i]
             meta == ExportsOf(u).meta
             storyFn == StoryFn(u, key)
             noted == IF storyFn.story.present
                      THEN Deprecated([acc EXCEPT !.log = Append(@, LogLine("debug", "deprecated story", key))],
                                      "storyAnnotation")
                      ELSE acc
             exportName == ExportNames[key]
         IN  IF ~IsExportStory(key, meta) THEN AddStories(u, storyExports, i + 1, acc)
             ELSE IF StoryId(meta, key) = InvalidId
             THEN [noted EXCEPT !.error = [kind |-> "InvalidId", unit |-> u]]
             ELSE AddStories(u, storyExports, i + 1,
                      KindAdd(noted, u, meta.title, key, OrElse(StoryName(storyFn), exportName),
                              StoryParams(meta, key, storyFn)))


\* a test made on the keys that isExportStory accepts
NoStoryExports_AfterPredicate(u) ==
    SelectSeq(StoryExports(u), LAMBDA key : IsExportStory(key, ExportsOf(u).meta)) = <<>>

\* storyExports.length === 0, tested on Object.keys(exports) before
\* isExportStory is applied
NoStoryExports(u) == StoryExports(u) = <<>>

\* the body of added.forEach for one export object
AddUnit(fileExports, fileName, framework, acc) ==
    LET meta == ExportsOf(fileExports).meta
        kindName == meta.title
        warnedDup == IF kindName \in acc.loadedKinds THEN DuplicateKindWarning(acc, kindName) ELSE acc
        seen == [warnedDup EXCEPT !.loadedKinds = @ \cup {kindName}]
        kind == AddDecorators(
                    AddParameters(StoriesOf(seen, fileExports, kindName), fileExports, kindName,
                                  KindParameters(framework, meta, fileName)),
                    fileExports, kindName, meta.decorators)
        storyExports == StoryExports(fileExports)
    IN  IF ~ExportsOf(fileExports).hasDefault THEN acc
        ELSE IF ~Truthy(meta.title)
        THEN [acc EXCEPT !.error = [kind |-> "NoTitle", unit |-> fileExports]]
        ELSE IF NoStoryExports(fileExports)
        THEN [kind EXCEPT !.log = Append(@, LogLine("warn", "no exported stories", kindName))]
        ELSE AddStories(fileExports, storyExports, 1, kind)

\* added.forEach that would go on after a throw
RECURSIVE AddAll_NoAbort(_, _, _, _, _)
AddAll_NoAbort(added, i, cur, framework, acc) ==
    IF i > Len(added) THEN acc
    ELSE AddAll_NoAbort(added, i + 1, cur, framework,
             LET next == AddUnit(added[i], MapGet(cur, added[i]), framework,
                                 [acc EXCEPT !.error = NoError])
             IN  IF acc.error # NoError THEN [next EXCEPT !.error = acc.error] ELSE next)

\* added.forEach; a throw ends it
RECURSIVE AddAll(_, _, _, _, _)
AddAll(added, i, cur, framework, acc) ==
    IF i > Len(added) \/ acc.error # NoError THEN acc
    ELSE AddAll(added, i + 1, cur, framework,
                AddUnit(added[i], MapGet(cur, added[i]), framework, acc))


\* an assignment of the snapshot that a throw would not skip
NextSnapshot_EvenAfterThrow(done, currentExports, prev) == currentExports

\* previousExports = currentExports, the last statement of the pass: a throw
\* in added.forEach leaves the function before it
NextSnapshot(done, currentExports, prev) ==
    IF done.error = NoError THEN currentExports ELSE prev


\* a pass that would register the added units before it removes the groups
\* of the removed ones
LoadStories_AddBeforeRemove(loadable, framework, prev, acc) ==
    LET got == LoadExports(loadable)
        currentExports == got.exports
        start == [acc EXCEPT !.log = @ \o got.log, !.loadedKinds = {}]
        afterAdded == AddAll(Added(prev, currentExports), 1, currentExports, framework, start)
        done == IF afterAdded.error = NoError
                THEN RemoveAll(Removed(prev, currentExports), 1, afterAdded)
                ELSE afterAdded
    IN  [acc |-> done,
         passCur |-> currentExports,
         previousExports |-> NextSnapshot(done, currentExports, prev)]

\* loadStories(loadable, framework, { clientApi, storyStore })(), started with
\* the snapshot prev; acc carries the catalog and the logs.
LoadStories(loadable, framework, prev, acc) ==
    LET got == LoadExports(loadable)
        currentExports == got.exports
        start == [acc EXCEPT !.log = @ \o got.log, !.loadedKinds = {}]
        afterRemoved == RemoveAll(Removed(prev, currentExports), 1, start)
        done == AddAll(Added(prev, currentExports), 1, currentExports, framework, afterRemoved)
    IN  [acc |-> done,
         passCur |-> currentExports,
         previousExports |-> NextSnapshot(done, currentExports, prev)]

(***************************************************************************)
(* loadCsf: the entrypoint load(framework, loadable, m)                    *)
(***************************************************************************)
\* configApi.configure(loaders, m): runs the loader once, synchronously.
Configure(loadable, framework, prev, acc) == LoadStories(loadable, framework, prev, acc)


\* a restore that would ignore what the channel holds
RestoredExports_Forgotten(data) == EmptyExports

\* ({ previousExports = new Map() } = m.hot.data || {})
RestoredExports(data) == IF data.present THEN data.previousExports ELSE EmptyExports

\* a load without m.hot that would start from an empty snapshot
StartingExports_ColdStart(m) ==
    IF m = "hot" THEN RestoredExports(hotData) ELSE EmptyExports

\* The snapshot the pass of this invocation starts from.
StartingExports(m) ==
    IF m = "hot" THEN RestoredExports(hotData) ELSE previousExports

\* m.hot.dispose(...) registers one more callback
HooksAfterLoad(m) == IF m = "hot" THEN disposeHooks + 1 ELSE disposeHooks

\* load without the test of `loaded`
RepeatedLoadWarning_Never(acc) == acc

\* if (loaded) logger.warn('Unexpected loaded state. Did you call `load` twice?')
RepeatedLoadWarning(acc) ==
    IF loaded
    THEN [acc EXCEPT !.log = Append(@, LogLine("warn", "Unexpected loaded state", <<>>)),
                     !.repeatWarnings = @ + 1]
    ELSE acc

\* What the invocation starts with: the logs of this invocation are empty.
StartAcc ==
    [calls |-> <<>>, catalog |-> catalog, loadedKinds |-> {}, log |-> <<>>,
     warned |-> warned, dupWarnings |-> dupWarnings, repeatWarnings |-> repeatWarnings,
     error |-> NoError, everAdded |-> everAdded]

\* if (showDeprecationWarning) configureDeprecationWarning()
ConfigureDeprecation(acc, showDeprecationWarning) ==
    IF showDeprecationWarning THEN Deprecated(acc, "configure") ELSE acc

\* a load that would not check the type of m
InvalidModule_Unchecked(m) == FALSE

\* typeof m === 'string': throw new Error(`Invalid module ...`)
InvalidModule(m) == m = "string"

\* load with a string for m: only the deprecation notice has happened
LoadInvalid(framework, loadable, m, showDeprecationWarning) ==
    LET acc == ConfigureDeprecation(StartAcc, showDeprecationWarning)
    IN  /\ InvalidModule(m)
        /\ nLoads < MaxLoads
        /\ warned' = acc.warned
        /\ log' = acc.log
        /\ error' = [kind |-> "InvalidModule", unit |-> ""]
        /\ lastModule' = m
        /\ nLoads' = nLoads + 1
        /\ UNCHANGED <<previousExports, loaded, hotData, disposeHooks, catalog, dupWarnings,
                       repeatWarnings, everAdded, calls, passPrev, passCur, passLoadable,
                       nValidLoads, nPasses, nDisposes>>

\* load with a valid m
LoadValid(framework, loadable, m, showDeprecationWarning) ==
    LET prev == StartingExports(m)
        acc == RepeatedLoadWarning(ConfigureDeprecation(StartAcc, showDeprecationWarning))
    IN  /\ ~InvalidModule(m)
        /\ nLoads < MaxLoads
        /\ \E pass \in {Configure(loadable, framework, prev, acc)} :
           /\ disposeHooks' = HooksAfterLoad(m)
           /\ repeatWarnings' = pass.acc.repeatWarnings
           /\ loaded' = TRUE
           /\ previousExports' = pass.previousExports
           /\ catalog' = pass.acc.catalog
           /\ warned' = pass.acc.warned
           /\ dupWarnings' = pass.acc.dupWarnings
           /\ everAdded' = pass.acc.everAdded
           /\ calls' = pass.acc.calls
           /\ log' = pass.acc.log
           /\ error' = pass.acc.error
           /\ passPrev' = prev
           /\ passCur' = pass.passCur
           /\ passLoadable' = loadable
           /\ lastModule' = m
           /\ nLoads' = nLoads + 1
           /\ nValidLoads' = nValidLoads + 1
           /\ nPasses' = nPasses + 1
           /\ UNCHANGED <<hotData, nDisposes>>


\* a teardown that would clear `loaded` without a registered callback
LoadedAfterTeardown_Always(hooks, was) == FALSE

\* loaded = false, in the callback given to m.hot.dispose: it runs only if a
\* load with m.hot registered it
LoadedAfterTeardown(hooks, was) == IF hooks > 0 THEN FALSE ELSE was

\* The hot-reload teardown of the module that called load: the registered
\* callbacks run on a fresh data object, which the next module instance
\* finds as m.hot.data; that instance has no callback registered yet.
Dispose ==
    /\ nDisposes < MaxDisposes
    /\ loaded' = LoadedAfterTeardown(disposeHooks, loaded)
    /\ hotData' = IF disposeHooks > 0
                  THEN [present |-> TRUE, previousExports |-> previousExports]
                  ELSE NoData
    /\ disposeHooks' = 0
    /\ nDisposes' = nDisposes + 1
    /\ UNCHANGED <<previousExports, catalog, warned, dupWarnings, repeatWarnings, everAdded,
                   calls, log, error, passPrev, passCur, passLoadable, lastModule, nLoads,
                   nValidLoads, nPasses>>

Init ==
    /\ previousExports = EmptyExports
    /\ loaded = FALSE
    /\ hotData = NoData
    /\ disposeHooks = 0
    /\ catalog = EmptyCatalog
    /\ warned = {}
    /\ dupWarnings = 0
    /\ repeatWarnings = 0
    /\ everAdded = {}
    /\ calls = <<>>
    /\ log = <<>>
    /\ error = NoError
    /\ passPrev = EmptyExports
    /\ passCur = EmptyExports
    /\ passLoadable = NoLoadable
    /\ lastModule = "undefined"
    /\ nLoads = 0
    /\ nValidLoads = 0
    /\ nPasses = 0
    /\ nDisposes = 0

ShowDeprecationWarning == {TRUE}

Load ==
    \E framework \in Frameworks, loadable \in Loadables, m \in Modules,
       showDeprecationWarning \in ShowDeprecationWarning :
        \/ LoadInvalid(framework, loadable, m, showDeprecationWarning)
        \/ LoadValid(framework, loadable, m, showDeprecationWarning)

Next == Load \/ Dispose

Spec == Init /\ [][Next]_vars

(***************************************************************************)
(* Properties                                                              *)
(***************************************************************************)
RegistrationOps == {"storiesOf", "addParameters", "addDecorator", "add"}

\* the positions of the calls of one operation made for one unit
CallsOf(op, u) == {i \in DOMAIN calls : calls[i].op = op /\ calls[i].unit = u}

PrevKeys == KeySet(passPrev)
CurKeys == KeySet(passCur)

\* C1: in a pass, removeStoryKind is called only for units of the previous
\* snapshot that are not loaded now, the registration calls (storiesOf,
\* addParameters, addDecorator, add) only for loaded units that the previous
\* snapshot does not hold; a unit in both gets no call.
C1_CallsFollowTheDiff ==
    \A i \in DOMAIN calls :
        /\ calls[i].op = "removeStoryKind" => calls[i].unit \in PrevKeys \ CurKeys
        /\ calls[i].op \in RegistrationOps => calls[i].unit \in CurKeys \ PrevKeys
        /\ calls[i].unit \notin PrevKeys \cap CurKeys

\* a pass that removed a group, registered an entry and left a unit alone
C1_Witness ==
    /\ \E i \in DOMAIN calls : calls[i].op = "removeStoryKind"
    /\ \E i \in DOMAIN calls : calls[i].op = "add"
    /\ \E u \in PrevKeys \cap CurKeys : ExportsOf(u).hasDefault

\* C2: a unit of the previous snapshot that is not loaded now and has a
\* default with a title gets exactly one removeStoryKind call, with that
\* title; one that has no default gets none.
C2_OneRemovalPerTitledUnit ==
    \A u \in PrevKeys \ CurKeys :
        /\ (ExportsOf(u).hasDefault /\ Truthy(ExportsOf(u).meta.title)) =>
              /\ Cardinality(CallsOf("removeStoryKind", u)) = 1
              /\ \A i \in CallsOf("removeStoryKind", u) : calls[i].title = ExportsOf(u).meta.title
        /\ ~ExportsOf(u).hasDefault => CallsOf("removeStoryKind", u) = {}

\* a pass that removed a titled unit and a unit without default
C2_Witness ==
    /\ \E u \in PrevKeys \ CurKeys :
          ExportsOf(u).hasDefault /\ CallsOf("removeStoryKind", u) # {}
    /\ \E u \in PrevKeys \ CurKeys : ~ExportsOf(u).hasDefault

\* C3 as claimed: a load without a reload channel starts its pass from an
\* empty snapshot, so no unit is removed by it.
C3_ColdStartFromEmpty ==
    (lastModule = "undefined" /\ nPasses > 0) =>
        /\ passPrev = EmptyExports
        /\ \A i \in DOMAIN calls : calls[i].op # "removeStoryKind"

\* C3, amended: a load without a reload channel starts its pass from the
\* snapshot that previousExports holds when load is invoked (empty only if
\* no earlier pass completed and none was restored from a channel).
C3_StartsFromModuleSnapshot ==
    [][(nPasses' = nPasses + 1 /\ lastModule' = "undefined") => passPrev' = previousExports]_vars

\* a second load without a channel that found the first load's unit in the
\* snapshot and neither removed nor registered it
C3_Witness ==
    /\ lastModule = "undefined"
    /\ nPasses = 2
    /\ \E u \in PrevKeys \cap CurKeys : ExportsOf(u).hasDefault /\ CallsOf("storiesOf", u) = {}

RepeatedLoadLine == LogLine("warn", "Unexpected loaded state", <<>>)

\* the pass ran to its end: every added unit with a default got its group
\* and the snapshot is the current set
PassCompleted ==
    /\ \A u \in CurKeys \ PrevKeys : ExportsOf(u).hasDefault => CallsOf("storiesOf", u) # {}
    /\ previousExports = passCur

\* C4: of two load invocations with no teardown between them the first logs
\* no 'repeated load' warning and the second logs one, and the second still
\* runs its pass to the end.
C4_OneRepeatedLoadWarning ==
    /\ (nDisposes = 0 /\ nValidLoads = 1) => repeatWarnings = 0
    /\ (nDisposes = 0 /\ nValidLoads = 2) =>
          /\ repeatWarnings = 1
          /\ nPasses = 2
          /\ lastModule # "string" => RepeatedLoadLine \in Range(log)
          /\ error = NoError => PassCompleted

\* a second load right after the first that warned and registered an entry
C4_Witness ==
    /\ nDisposes = 0 /\ nValidLoads = 2 /\ repeatWarnings = 1
    /\ error = NoError
    /\ \E i \in DOMAIN calls : calls[i].op = "add"

\* the added units of the last pass, in the order of currentExports
AddedSeq == SelectSeq(MapKeys(passCur), LAMBDA u : u \notin PrevKeys)

PosIn(seq, x) == CHOOSE i \in DOMAIN seq : seq[i] = x

\* C5: when the pass throws for a default without title, the error names
\* that unit, no registration call was made for it or a later added unit,
\* and the groups and entries registered before it and the removals stay.
C5_FatalTitleErrorNoRollback ==
    error.kind = "NoTitle" =>
        LET bad == error.unit
        IN  /\ bad \in Range(AddedSeq)
            /\ ExportsOf(bad).hasDefault /\ ~Truthy(ExportsOf(bad).meta.title)
            /\ \A i \in DOMAIN calls :
                  calls[i].op \in RegistrationOps =>
                      /\ calls[i].unit \in Range(AddedSeq)
                      /\ PosIn(AddedSeq, calls[i].unit) < PosIn(AddedSeq, bad)
            /\ \A u \in Range(AddedSeq) :
                  (PosIn(AddedSeq, u) < PosIn(AddedSeq, bad) /\ ExportsOf(u).hasDefault) =>
                      /\ CallsOf("storiesOf", u) # {}
                      /\ ExportsOf(u).meta.title \in DOMAIN catalog
            /\ \A i \in DOMAIN calls :
                  calls[i].op = "add" =>
                      \E e \in Range(catalog[calls[i].title].entries) :
                          e.unit = calls[i].unit /\ e.key = calls[i].key
            /\ \A u \in PrevKeys \ CurKeys :
                  ExportsOf(u).hasDefault =>
                      /\ CallsOf("removeStoryKind", u) # {}
                      /\ ExportsOf(u).meta.title \in DOMAIN catalog =>
                            \E i \in DOMAIN calls : /\ calls[i].op = "storiesOf"
                                                    /\ calls[i].title = ExportsOf(u).meta.title

\* a pass that removed a group and registered entries before it threw
C5_Witness ==
    /\ error.kind = "NoTitle"
    /\ \E i \in DOMAIN calls : calls[i].op = "add"
    /\ \E i \in DOMAIN calls : calls[i].op = "removeStoryKind"

\* the 'Duplicate title' lines of the last load invocation
DuplicateTitleLines ==
    {i \in DOMAIN log : log[i].level = "warn" /\ log[i].msg = "Duplicate title"}

\* the groups requested in the last pass for a title that an earlier added
\* unit of the same pass had declared
RepeatedTitleCalls ==
    {j \in DOMAIN calls :
        /\ calls[j].op = "storiesOf"
        /\ \E i \in DOMAIN calls :
              i < j /\ calls[i].op = "storiesOf" /\ calls[i].title = calls[j].title}

\* C6 as claimed: two loaded units that declare the same title have produced
\* exactly one duplicate-title warning since the process started.
C6_OneWarningPerLifetime ==
    (\E u, v \in KeySet(previousExports) :
        /\ u # v
        /\ ExportsOf(u).hasDefault /\ ExportsOf(v).hasDefault
        /\ ExportsOf(u).meta.title = ExportsOf(v).meta.title) => dupWarnings = 1

\* C6, amended: a load logs one 'Duplicate title' warning for each added unit
\* whose title an earlier added unit of the same pass declared (one for two
\* units, n - 1 for n), and none for units added in different passes.
C6_OneWarningPerRepeatInAPass ==
    lastModule # "string" =>
        /\ Cardinality(DuplicateTitleLines) = Cardinality(RepeatedTitleCalls)
        /\ \A i \in DuplicateTitleLines :
              \E j \in RepeatedTitleCalls : calls[j].title = log[i].arg

\* a pass that added three units of one title and logged two warnings, after
\* an earlier pass that had logged one
C6_Witness ==
    /\ lastModule # "string"
    /\ Cardinality(DuplicateTitleLines) = 2
    /\ dupWarnings = 3

\* the keys registered for a unit in the last pass, in call order
RECURSIVE KeysAdded(_, _)
KeysAdded(u, i) ==
    IF i > Len(calls) THEN <<>>
    ELSE IF calls[i].op = "add" /\ calls[i].unit = u THEN <<calls[i].key>> \o KeysAdded(u, i + 1)
    ELSE KeysAdded(u, i + 1)

FirstIndex(seq, x) == CHOOSE i \in DOMAIN seq : seq[i] = x /\ \A j \in 1..(i - 1) : seq[j] # x

\* C7: for a unit with __namedExportsOrder, the entries registered are the
\* listed keys that are named exports of the unit and pass isExportStory,
\* each once, in the order of the list; no other key is registered.
C7_NamedExportsOrder ==
    \A u \in Units :
        (ExportsOf(u).namedExportsOrder # NoList /\ CallsOf("storiesOf", u) # {}) =>
            LET order == ExportsOf(u).namedExportsOrder
                got == KeysAdded(u, 1)
            IN  /\ Range(got) = {k \in Range(order) :
                                    k \in Range(NamedKeys(u)) /\ IsExportStory(k, ExportsOf(u).meta)}
                /\ Cardinality(Range(got)) = Len(got)
                /\ \A i, j \in DOMAIN got :
                      i < j => FirstIndex(order, got[i]) < FirstIndex(order, got[j])

\* "btn" lists c, aB, zz, c, b and exports aB, b, c, e: c then aB were
\* registered and nothing else
C7_Witness ==
    /\ CallsOf("storiesOf", "btn") # {}
    /\ KeysAdded("btn", 1) = << K_c, K_aB >>

\* the keys of the bag that kind.add sets itself
BagFields == {"__id", "decorators", "args", "argTypes"}

\* m is the shallow merge of legacy and current on the keys ks
MergeOn(m, legacy, current, ks) ==
    \A p \in ks :
        /\ p \in DOMAIN m
        /\ p \in DOMAIN current => m[p] = current[p]
        /\ p \notin DOMAIN current => m[p] = legacy[p]

IsMerge(m, legacy, current) ==
    /\ DOMAIN m = DOMAIN legacy \cup DOMAIN current
    /\ MergeOn(m, legacy, current, DOMAIN m)

\* C8 as claimed: the registered parameters, args and argTypes are the
\* shallow merges of the legacy and the current-style fields, the current
\* value for every key in both, every other key kept.
C8_MergeOnEveryKey ==
    \A i \in DOMAIN calls :
        calls[i].op = "add" =>
            LET f == StoryFn(calls[i].unit, calls[i].key)
                bag == calls[i].bag
            IN  /\ MergeOn(bag, f.story.parameters, f.parameters,
                           DOMAIN f.story.parameters \cup DOMAIN f.parameters)
                /\ IsMerge(bag["args"], f.story.args, f.args)
                /\ IsMerge(bag["argTypes"], f.story.argTypes, f.argTypes)

\* C8, amended: args and argTypes are these merges; the merged parameters are
\* the keys of the registered bag, except that the bag's own __id,
\* decorators, args and argTypes replace parameters of these names.
C8_MergeCurrentOverLegacy ==
    \A i \in DOMAIN calls :
        calls[i].op = "add" =>
            LET f == StoryFn(calls[i].unit, calls[i].key)
                bag == calls[i].bag
                ps == DOMAIN f.story.parameters \cup DOMAIN f.parameters
            IN  /\ DOMAIN bag = ps \cup BagFields
                /\ MergeOn(bag, f.story.parameters, f.parameters, ps \ BagFields)
                /\ IsMerge(bag["args"], f.story.args, f.args)
                /\ IsMerge(bag["argTypes"], f.story.argTypes, f.argTypes)

\* an entry registered with a parameter, an arg and an argType that both
\* styles give, and parameters that only one of them gives
C8_Witness ==
    \E i \in DOMAIN calls :
        /\ calls[i].op = "add" /\ calls[i].unit = "btn" /\ calls[i].key = K_aB
        /\ calls[i].bag["foo"] = V1 /\ calls[i].bag["bar"] = V2 /\ calls[i].bag["baz"] = V1
        /\ calls[i].bag["args"]["x"] = V1 /\ calls[i].bag["args"]["y"] = V2

\* the entries of the catalog
CatalogEntries == UNION {Range(catalog[t].entries) : t \in DOMAIN catalog}

\* componentId || kindName of the unit an entry came from
GroupKey(u) == OrElse(ExportsOf(u).meta.id, ExportsOf(u).meta.title)

\* C9: two registered entries with the same group id-or-title and the same
\* export key have the same identifier, in the calls of a pass and among the
\* entries that passes have left in the catalog.
C9_IdentifierDeterministic ==
    /\ \A i, j \in DOMAIN calls :
          (/\ calls[i].op = "add" /\ calls[j].op = "add"
           /\ GroupKey(calls[i].unit) = GroupKey(calls[j].unit)
           /\ calls[i].key = calls[j].key) => calls[i].bag["__id"] = calls[j].bag["__id"]
    /\ \A d, e \in CatalogEntries :
          (GroupKey(d.unit) = GroupKey(e.unit) /\ d.key = e.key) => d.id = e.id

\* entries of two units registered in different passes, one under an explicit
\* id and one under a title, with different display names and the same id
C9_Witness ==
    \E d, e \in CatalogEntries :
        /\ d.unit = "inp" /\ e.unit = "btn" /\ d.key = e.key
        /\ d.name # e.name /\ d.id = e.id
        /\ CallsOf("add", "inp") = {} /\ CallsOf("add", "btn") # {}

\* C10: a load with a string for m throws the invalid-module error and
\* starts no pass: loaded, the snapshot, the catalog, the channel's data and
\* the registered dispose callbacks are as before.
C10_StringModuleRejected ==
    [][(nLoads' = nLoads + 1 /\ lastModule' = "string") =>
          /\ error'.kind = "InvalidModule"
          /\ UNCHANGED <<loaded, previousExports, catalog, disposeHooks, hotData, calls,
                         nPasses>>]_vars

\* a load with a string, after a pass had registered groups
C10_Witness ==
    /\ lastModule = "string" /\ error.kind = "InvalidModule"
    /\ loaded /\ previousExports # EmptyExports /\ DOMAIN catalog # {}


\* the export objects a loadable yields: of a context or an array of
\* contexts every file whose require returns, of a loader function the
\* elements of a returned array whose elements all have a default
LoadedUnits(loadable) ==
    IF loadable.shape = "function"
    THEN IF /\ loadable.returns.kind = "array"
            /\ \A i \in DOMAIN loadable.returns.items :
                  ExportsOf(loadable.returns.items[i]).hasDefault
         THEN Range(loadable.returns.items)
         ELSE {}
    ELSE {Require(f) : f \in {k \in UNION {Range(loadable.reqs[i].keys) : i \in DOMAIN loadable.reqs} :
                                  ~RequireThrows(k)}}

RecognizedExports(u) ==
    SelectSeq(StoryExports(u), LAMBDA key : IsExportStory(key, ExportsOf(u).meta))

\* the units a group was requested for in the last pass
RegisteredUnits == {u \in Units : CallsOf("storiesOf", u) # {}}

\* C12: a unit registered in a pass whose exports leave it no recognized
\* entry after __namedExportsOrder and isExportStory has the 'no exported
\* stories' warning logged with its title, and its group is in the catalog
\* with no entry of that unit.
C12_EmptyGroupWarns ==
    lastModule # "string" =>
        \A u \in RegisteredUnits :
            RecognizedExports(u) = <<>> =>
                /\ LogLine("warn", "no exported stories", ExportsOf(u).meta.title) \in Range(log)
                /\ ExportsOf(u).meta.title \in DOMAIN catalog
                /\ \A e \in Range(catalog[ExportsOf(u).meta.title].entries) : e.unit # u


\* the 'no exported stories' lines of the last load invocation
NoExportsLines ==
    {i \in DOMAIN log : log[i].level = "warn" /\ log[i].msg = "no exported stories"}

\* the unit processed after u in added.forEach is skipped (no default), is
\* the unit the pass threw for, or got its group
ProceedsAfter(u) ==
    LET i == PosIn(AddedSeq, u)
    IN  i < Len(AddedSeq) =>
            \/ ~ExportsOf(AddedSeq[i + 1]).hasDefault
            \/ error.unit = AddedSeq[i + 1]
            \/ AddedSeq[i + 1] \in RegisteredUnits

\* C12 as amended: a registered unit that has no named export left by
\* __namedExportsOrder has the warning logged with its title, one line per
\* such unit and none for any other; a unit whose exports are all rejected by
\* isExportStory gets no line; in both cases the group is in the catalog
\* without an entry of the unit and the pass goes on with the next added unit.
C12_NoExportsLeftWarns ==
    lastModule # "string" =>
        /\ \A u \in RegisteredUnits :
              /\ StoryExports(u) = <<>> =>
                    LogLine("warn", "no exported stories", ExportsOf(u).meta.title) \in Range(log)
              /\ RecognizedExports(u) = <<>> =>
                    /\ ExportsOf(u).meta.title \in DOMAIN catalog
                    /\ \A e \in Range(catalog[ExportsOf(u).meta.title].entries) : e.unit # u
                    /\ CallsOf("add", u) = {}
                    /\ ProceedsAfter(u)
        /\ Cardinality(NoExportsLines)
              = Cardinality({u \in RegisteredUnits : StoryExports(u) = <<>>})

\* A pass that registered a unit without named exports, warned once, and
\* went on to register a unit whose only export isExportStory rejects.
C12_Witness ==
    /\ lastModule # "string"
    /\ error = NoError
    /\ RegisteredUnits = {"emp", "exc"}
    /\ Cardinality(NoExportsLines) = 1
    /\ DOMAIN catalog = {S_Emp, S_Exc}
    /\ catalog[S_Emp].entries = <<>> /\ catalog[S_Exc].entries = <<>>


\* C13: a load invocation with a valid m leaves loaded true, whether or not
\* its pass throws, and logs the 'Unexpected loaded state' warning exactly
\* when loaded was true before it; a rejected invocation changes neither;
\* loaded goes from true to false only in a teardown that runs a callback
\* registered with m.hot.dispose, and every such teardown clears it.
C13_LoadStateLifecycle ==
    [][/\ nValidLoads' = nValidLoads + 1 =>
             /\ loaded'
             /\ (RepeatedLoadLine \in Range(log')) <=> loaded
             /\ repeatWarnings' = repeatWarnings + (IF loaded THEN 1 ELSE 0)
       /\ (nLoads' = nLoads + 1 /\ nValidLoads' = nValidLoads) =>
             /\ loaded' = loaded
             /\ RepeatedLoadLine \notin Range(log')
             /\ repeatWarnings' = repeatWarnings
       /\ (loaded /\ ~loaded') => (nDisposes' = nDisposes + 1 /\ disposeHooks > 0)
       /\ (nDisposes' = nDisposes + 1 /\ disposeHooks > 0) => ~loaded'
       /\ (nDisposes' = nDisposes + 1 /\ disposeHooks = 0) => loaded' = loaded]_vars

\* Two valid loads, the second warned, the first with m.hot; then the
\* teardown cleared loaded.
C13_Witness ==
    /\ nValidLoads = 2
    /\ repeatWarnings = 1
    /\ nDisposes = 1
    /\ ~loaded


\* C14: the teardown that runs the m.hot.dispose callback puts the snapshot
\* of that moment on the channel; a load with m.hot starts its pass from
\* what the channel holds, the empty snapshot if nothing was put there; no
\* catalog call of that pass is made for a unit that is both in the restored
\* snapshot and loaded again.
C14_SnapshotSurvivesReload ==
    [][/\ (nDisposes' = nDisposes + 1 /\ disposeHooks > 0) =>
             hotData' = [present |-> TRUE, previousExports |-> previousExports]
       /\ (nPasses' = nPasses + 1 /\ lastModule' = "hot") =>
             /\ hotData' = hotData
             /\ passPrev' = IF hotData.present THEN hotData.previousExports ELSE EmptyExports
             /\ \A u \in KeySet(passPrev') \cap KeySet(passCur') :
                   \A i \in DOMAIN calls' : calls'[i].unit # u]_vars

\* After a teardown, a load with m.hot found the snapshot of the pass before
\* the teardown and loaded one of its titled units again, with a new one.
C14_Witness ==
    /\ nDisposes = 1
    /\ nPasses = 2
    /\ lastModule = "hot"
    /\ hotData.present
    /\ passPrev = hotData.previousExports
    /\ "btn" \in PrevKeys \cap CurKeys
    /\ CallsOf("storiesOf", "btn") = {}
    /\ \E i \in DOMAIN calls : calls[i].op = "storiesOf"


\* the 'Unexpected error while loading' lines of the last load invocation
LoadFailureLines ==
    {i \in DOMAIN log : log[i].level = "warn" /\ log[i].msg = "Unexpected error while loading"}


\* the places (context, key) of the last pass's loadable where require throws
FailingPlaces ==
    UNION {{<<i, j>> : j \in {k \in DOMAIN passLoadable.reqs[i].keys :
                                RequireThrows(passLoadable.reqs[i].keys[k])}} :
           i \in DOMAIN passLoadable.reqs}

\* C15: in a pass over a context or an array of contexts, each key whose
\* require throws gets one warning that names it and is not in the current
\* set, every other key of every context is in the current set with its
\* path, and the pass goes on: the removals are made and, unless a loaded
\* unit is fatal, the pass completes.
C15_LoadFailureIsPerKey ==
    (lastModule # "string" /\ passLoadable.shape \in {"context", "array"}) =>
        /\ \A i \in DOMAIN passLoadable.reqs :
              \A j \in DOMAIN passLoadable.reqs[i].keys :
                 LET filename == passLoadable.reqs[i].keys[j]
                 IN  IF RequireThrows(filename)
                     THEN /\ LogLine("warn", "Unexpected error while loading", <<filename>>)
                                \in Range(log)
                          /\ filename \notin CurKeys
                     ELSE /\ Require(filename) \in CurKeys
                          /\ MapGet(passCur, Require(filename)) =
                                IF passLoadable.reqs[i].resolve THEN ResolvedPath(filename)
                                ELSE PlainPath(filename)
        /\ Cardinality(LoadFailureLines) = Cardinality(FailingPlaces)
        /\ \A u \in PrevKeys \ CurKeys :
              ExportsOf(u).hasDefault => CallsOf("removeStoryKind", u) # {}
        /\ error = NoError => PassCompleted

\* A completed pass over two contexts: the file that failed in the second is
\* named in a warning, the file after it and the file of the first are
\* loaded and registered.
C15_Witness ==
    /\ lastModule # "string"
    /\ passLoadable = ContextArray(<< <<"btn2">>, <<BrokenFile, "inp">> >>)
    /\ Cardinality(LoadFailureLines) = 1
    /\ CurKeys = {"btn2", "inp"}
    /\ error = NoError
    /\ CallsOf("add", "inp") # {}


LoaderFunctionLine == LogLine("warn", "Loader function passed to 'configure'", <<>>)

\* C16: in a pass over a loader function, a returned object that is not an
\* array and a returned array with an element that lacks a default are
\* warned about and give an empty current set; a function that returns
\* nothing gives an empty current set and no warning; a returned array whose
\* elements all have a default gives these elements, in order, each with the
\* null path, and no warning.
C16_LoaderFunctionReturn ==
    (lastModule # "string" /\ passLoadable.shape = "function") =>
        LET exported == passLoadable.returns
            malformed == \E i \in DOMAIN exported.items :
                             ~ExportsOf(exported.items[i]).hasDefault
        IN  /\ exported.kind = "void" =>
                  passCur = EmptyExports /\ LoaderFunctionLine \notin Range(log)
            /\ (exported.kind = "object" \/ (exported.kind = "array" /\ malformed)) =>
                  passCur = EmptyExports /\ LoaderFunctionLine \in Range(log)
            /\ (exported.kind = "array" /\ ~malformed) =>
                  /\ MapKeys(passCur) = exported.items
                  /\ \A i \in DOMAIN passCur : passCur[i].value = NullPath
                  /\ LoaderFunctionLine \notin Range(log)

\* After a pass that loaded units, a loader function returned an array with
\* an element without default: warned, nothing current, the groups removed.
C16_Witness ==
    /\ lastModule # "string"
    /\ passLoadable = LoaderFunction("array", <<"btn2", "old">>)
    /\ passCur = EmptyExports
    /\ LoaderFunctionLine \in Range(log)
    /\ \E i \in DOMAIN calls : calls[i].op = "removeStoryKind"


\* a name is given: it is defined and not the empty string
Given(name) == name # Undefined /\ name # <<>>

\* C17: every entry is registered under the story function's storyName when
\* one is given, else under the name of its legacy story annotation when one
\* is given, else under the name derived from the export key.
C17_DisplayNamePrecedence ==
    \A i \in DOMAIN calls :
        calls[i].op = "add" =>
            LET storyFn == StoryFn(calls[i].unit, calls[i].key)
            IN  calls[i].name =
                    IF Given(storyFn.storyName) THEN storyFn.storyName
                    ELSE IF storyFn.story.present /\ Given(storyFn.story.name)
                    THEN storyFn.story.name
                    ELSE ExportNames[calls[i].key]


\* C18: the decorators registered with an entry are the story function's
\* decorators, in their order, followed by those of its legacy story
\* annotation, in their order: as many as both lists hold, a list that is
\* missing counting as empty.
C18_DecoratorsCurrentThenLegacy ==
    \A i \in DOMAIN calls :
        calls[i].op = "add" =>
            LET storyFn == StoryFn(calls[i].unit, calls[i].key)
                current == storyFn.decorators
                legacy == storyFn.story.decorators
                registered == calls[i].bag["decorators"]
            IN  /\ Len(registered) = Len(current) + Len(legacy)
                /\ \A j \in DOMAIN current : registered[j] = current[j]
                /\ \A j \in DOMAIN legacy : registered[Len(current) + j] = legacy[j]

\* An entry registered with two decorators of its own and one of its legacy
\* annotation, and in the same pass one that has only legacy decorators.
C18_Witness ==
    /\ \E i \in DOMAIN calls :
          /\ calls[i].op = "add" /\ calls[i].unit = "btn" /\ calls[i].key = K_aB
          /\ calls[i].bag["decorators"] = <<"d1", "d2", "d3">>
    /\ \E i \in DOMAIN calls :
          /\ calls[i].op = "add" /\ calls[i].unit = "inp"
          /\ calls[i].bag["decorators"] = <<"d3">>


\* C19: after a pass that completed, every unit of the snapshot whose
\* default export has a title has the group of that title in the catalog.
C19_LoadedTitledUnitsHaveGroup ==
    (nPasses > 0 /\ lastModule # "string" /\ error = NoError) =>
        \A u \in KeySet(previousExports) :
            (ExportsOf(u).hasDefault /\ Truthy(ExportsOf(u).meta.title)) =>
                ExportsOf(u).meta.title \in DOMAIN catalog


\* the added units of the last pass that declare the title of a removed one
Replacements ==
    {v \in CurKeys \ PrevKeys :
        /\ ExportsOf(v).hasDefault
        /\ \E u \in PrevKeys \ CurKeys :
              /\ ExportsOf(u).hasDefault
              /\ ExportsOf(u).meta.title = ExportsOf(v).meta.title}

\* C20: in a pass every removeStoryKind call comes before every
\* registration call; when the pass completes, the title of an added unit
\* that replaces a removed unit of the same title has been removed and then
\* requested again, and its group is in the catalog with an entry for each
\* recognized export of the added unit and none of a removed unit.
C20_RemovalsBeforeRegistrations ==
    /\ \A i, j \in DOMAIN calls :
          (calls[i].op = "removeStoryKind" /\ calls[j].op \in RegistrationOps) => i < j
    /\ error = NoError =>
          \A v \in Replacements :
             LET title == ExportsOf(v).meta.title
             IN  /\ \E i, j \in DOMAIN calls :
                       /\ i < j
                       /\ calls[i].op = "removeStoryKind" /\ calls[i].title = title
                       /\ calls[j].op = "storiesOf" /\ calls[j].unit = v
                 /\ title \in DOMAIN catalog
                 /\ \A key \in Range(RecognizedExports(v)) :
                       \E e \in Range(catalog[title].entries) : e.unit = v /\ e.key = key
                 /\ \A e \in Range(catalog[title].entries) : e.unit \notin PrevKeys \ CurKeys

\* The unit btn was replaced by btn2 of the same title: the group holds the
\* entries of btn2 only.
C20_Witness ==
    /\ error = NoError
    /\ "btn" \in PrevKeys \ CurKeys
    /\ "btn2" \in Replacements
    /\ S_Btn \in DOMAIN catalog
    /\ catalog[S_Btn].entries # <<>>
    /\ \A e \in Range(catalog[S_Btn].entries) : e.unit = "btn2"

=============================================================================
